---- MODULE Spec2Model ----
(***************************************************************************)
(* Model of src/audio/synth.rs: the synthesis-orchestration layer of the   *)
(* piper text-to-speech pipeline.  A PiperSpeechSynthesizer drives a       *)
(* PiperModel through three strategies: PiperSpeechStreamLazy (on demand), *)
(* PiperSpeechStreamParallel (rayon par_iter, collected in index order)    *)
(* and RealtimeSpeechStream (a pool task feeding a flume channel).         *)
(* synthesize_to_file writes the parallel strategy's samples to a wave     *)
(* file, and AudioOutputConfig transforms samples through a sonic stream.  *)
(*                                                                         *)
(* Option<T> is a sequence of length 0 (None) or 1 (Some).  Result<T, E>   *)
(* is a record with an ok flag, the payload and the error.  A sample is an *)
(* integer, ShortStep of them to one step of sonic's 16-bit samples.       *)
(* usize is UsizeBits wide.                                                *)
(***************************************************************************)
EXTENDS Integers, Sequences, FiniteSets, TLC

\* ---------------------------------------------------------------- bounds
\* Largest number of pronunciation units phonemize_text returns.
MaxUnits == 3
\* Largest number of items the model's chunk streams yield in one request.
MaxItems == 3
\* Width of usize in bits (scaled down from 64).
UsizeBits == 4
\* AudioInfo.sample_rate of the model, in Hz.
SampleRate == 2000
\* Largest chunk_size a caller passes to synthesize_streamed.
MaxChunkSize == 3
\* Float units per step of sonic's 16-bit samples (scaled down from 1/32767).
ShortStep == 2
\* Longest sample buffer handed to the AudioOutputConfig functions directly.
MaxSamples == 2
\* Longest silence, in ms, requested at the model's sample rate.
MaxSilenceMs == 2
\* Largest number of direct calls of the AudioOutputConfig functions.
MaxCalls == 2

\* ------------------------------------------------------- Option and Result
None == << >>
Some(x) == << x >>
IsSome(o) == Len(o) = 1
Unwrap(o) == o[1]

\* PiperError values.
PhonemizeError == "PhonemizeError"
ModelError == "ModelError"
StreamError == "StreamError"
SonicError == "Sonic Error: failed to apply audio config"

\* PiperResult<AudioSamples>
OkSamples(s) == [ok |-> TRUE, samples |-> s, err |-> ""]
ErrSamples(e) == [ok |-> FALSE, samples |-> << >>, err |-> e]

\* AudioInfo of the model and Audio.
AudioInfo == [sample_rate |-> SampleRate, num_channels |-> 1, sample_width |-> 2]
MkAudio(s) == [samples |-> s, info |-> AudioInfo]

\* PiperAudioResult
OkAudio(a) == [ok |-> TRUE, audio |-> a, err |-> ""]
ErrAudio(e) == [ok |-> FALSE, audio |-> MkAudio(<< >>), err |-> e]

\* PiperResult<Vec<String>>
OkPhonemes(p) == [ok |-> TRUE, units |-> p, err |-> ""]
ErrPhonemes(e) == [ok |-> FALSE, units |-> << >>, err |-> e]

\* --------------------------------------------------------- usize arithmetic
UsizeModulus == 2 ^ UsizeBits
\* A release build wraps the product.
WrappingMul(a, b) == (a * b) % UsizeModulus
\* A debug build panics on it.
MulOverflows(a, b) == a * b >= UsizeModulus

\* ------------------------------------------------------- AudioOutputConfig
\* The configurations a caller passes: none, all knobs unset, the rate alone,
\* the silence alone, and all four together.
MkConfig(r, v, p, s) == [rate |-> r, volume |-> v, pitch |-> p, appended_silence_ms |-> s]
OutputConfigs ==
    { None,
      Some(MkConfig(None, None, None, None)),
      Some(MkConfig(Some(2), None, None, None)),
      Some(MkConfig(None, None, None, Some(1))),
      Some(MkConfig(Some(2), Some(2), Some(2), Some(1))) }

\* The sonic stream: speed keeps every rate-th sample, volume scales a
\* sample, pitch shifts it; knobs left unset keep sonic's defaults.
SonicSpeed(config) == IF IsSome(config.rate) THEN Unwrap(config.rate) ELSE 1
SonicVolume(config) == IF IsSome(config.volume) THEN Unwrap(config.volume) ELSE 1
SonicPitch(config) == IF IsSome(config.pitch) THEN Unwrap(config.pitch) ELSE 1
\* sonic keeps its samples as 16-bit integers.  sonicWriteFloatToStream
\* scales a float to that range and truncates it; sonicReadFloatFromStream
\* scales the integer back.  A float is ShortStep units per integer step.
FloatToShort(x) == x \div ShortStep
ShortToFloat(s) == s * ShortStep
sonicSamplesAvailable(config, samples) == Len(samples) \div SonicSpeed(config)
sonicReadFloatFromStream(config, samples) ==
    [i \in 1..sonicSamplesAvailable(config, samples) |->
        ShortToFloat(FloatToShort(samples[i * SonicSpeed(config)])
                     * SonicVolume(config) * SonicPitch(config))]

\* What one call did: its result, the sonic streams it created and the ones
\* it destroyed, the silence buffer it built and the buffer it handed to the
\* final transformation.
CallOutcome(r, c, d, sil, tr) ==
    [result |-> r, created |-> c, destroyed |-> d, silence_samples |-> sil, transformed |-> tr]

\* A mutant of apply_to_raw_samples_call: no early return for an empty input.
apply_to_raw_samples_no_empty_return(config, samples) ==
    IF sonicSamplesAvailable(config, samples) <= 0
    THEN CallOutcome(ErrSamples(SonicError), 1, 0, << >>, samples)
    ELSE CallOutcome(OkSamples(sonicReadFloatFromStream(config, samples)), 1, 1, << >>, samples)

\* A mutant of apply_to_raw_samples_call: num_samples is not checked.
apply_to_raw_samples_unchecked(config, samples) ==
    IF Len(samples) = 0 THEN CallOutcome(OkSamples(samples), 0, 0, << >>, << >>)
    ELSE CallOutcome(OkSamples(sonicReadFloatFromStream(config, samples)), 1, 1, << >>, samples)

\* apply_to_raw_samples with its effects on sonic streams.  The return on
\* num_samples <= 0 leaves the function before sonicDestroyStream.
apply_to_raw_samples_call(config, samples) ==
    IF Len(samples) = 0 THEN CallOutcome(OkSamples(samples), 0, 0, << >>, << >>)
    ELSE IF sonicSamplesAvailable(config, samples) <= 0
         THEN CallOutcome(ErrSamples(SonicError), 1, 0, << >>, samples)
    ELSE CallOutcome(OkSamples(sonicReadFloatFromStream(config, samples)), 1, 1, << >>, samples)

apply_to_raw_samples(config, samples) == apply_to_raw_samples_call(config, samples).result

\* A mutant of silence_num_samples: the division comes first.
silence_num_samples_divide_first(time_ms, sample_rate) == (time_ms \div 1000) * sample_rate

\* num_samples of generate_silence.  time_ms is a u32 widened to usize, so
\* the product stays inside a 64-bit usize for every sample rate below 2^32.
silence_num_samples(time_ms, sample_rate) == (time_ms * sample_rate) \div 1000

generate_silence_call(config, time_ms, sample_rate) ==
    LET num_samples == silence_num_samples(time_ms, sample_rate)
        silence_samples == [i \in 1..num_samples |-> 0]
        raw == apply_to_raw_samples_call(config, silence_samples)
    IN  CallOutcome(raw.result, raw.created, raw.destroyed, silence_samples, silence_samples)

generate_silence(config, time_ms, sample_rate) ==
    generate_silence_call(config, time_ms, sample_rate).result

\* apply with its effects: the ? on generate_silence returns early, the
\* transformed silence is appended to the taken samples, and the whole is
\* transformed.
apply_call(config, audio) ==
    LET silence == IF IsSome(config.appended_silence_ms)
                   THEN generate_silence_call(config, Unwrap(config.appended_silence_ms),
                                              audio.info.sample_rate)
                   ELSE CallOutcome(OkSamples(<< >>), 0, 0, << >>, << >>)
        samples == audio.samples \o silence.result.samples
        out == apply_to_raw_samples_call(config, samples)
    IN  IF ~silence.result.ok
        THEN CallOutcome(ErrAudio(silence.result.err), silence.created, silence.destroyed,
                         silence.silence_samples, << >>)
        ELSE CallOutcome(IF out.result.ok
                         THEN OkAudio([audio EXCEPT !.samples = out.result.samples])
                         ELSE ErrAudio(out.result.err),
                         silence.created + out.created, silence.destroyed + out.destroyed,
                         silence.silence_samples, samples)

apply(config, audio) == apply_call(config, audio).result

\* ------------------------------------------------------------------ state
VARIABLES
    request,          \* which facade entry points the caller uses
    phonemes,         \* what model.phonemize_text answers for the text
    modelSpeak,       \* what model.speak_one_sentence answers, per unit
    output_config,    \* Option<AudioOutputConfig> of the request
    phonemizeCalls,   \* phonemize_text calls, per strategy
    lazyState,        \* PiperSpeechStreamLazy: "new", "ready", "failed"
    sentence_phonemes,\* PiperSpeechStreamLazy.sentence_phonemes
    lazyCalls,        \* units handed to process_one_sentence by the lazy stream
    lazyOut,          \* items next() has yielded
    lazyEnd,          \* next() has returned None
    parState,         \* PiperSpeechStreamParallel: "new", "collecting", "ready", "failed"
    parPhase,         \* per unit index: "pending", "running", "done"
    parAttempts,      \* per unit index: process_one_sentence calls
    calculated_result,\* the Vec being collected, per unit index
    precalculated_results, \* PiperSpeechStreamParallel.precalculated_results
    parAll,           \* the Vec as collected
    parOut,           \* items next() has yielded
    parEnd,           \* next() has returned None
    completion_order, \* unit indices in the order their work items finished
    chunk_size0,      \* the caller's chunk_size
    rtState,          \* RealtimeSpeechStream: "new", "streaming", "failed"
    taskPc,           \* the pool task: "none", "loop", "stream", "done", "aborted"
    phIter,           \* the task's phonemes iterator
    chunk_size,       \* the task's chunk_size
    num_processed_chunks, \* the task's num_processed_chunks
    num_chunks,       \* process_rt_stream's num_chunks
    pulled,           \* items the model's streams have yielded so far
    chan,             \* the flume channel's queue
    rxAlive,          \* the Receiver has not been dropped
    received,         \* items next() has yielded to the consumer
    rxEnd,            \* next() has returned None
    sent,             \* every item a successful send put on the channel
    reqSizes,         \* chunk_size of every stream_synthesis call, in order
    sendFailed,       \* a send has returned SendError
    lazyNexts,        \* calls of PiperSpeechStreamLazy::next so far
    fileState,        \* synthesize_to_file: "new", "returned"
    fileResult,       \* what synthesize_to_file returned
    fileWritten,      \* the sample buffers handed to the wave file writer
    sonicIn,          \* arguments of the direct AudioOutputConfig calls
    sonicCall,        \* the last direct AudioOutputConfig call and what it did
    sonicCalls,       \* direct AudioOutputConfig calls so far
    sonicLive         \* sonic streams created and not destroyed

inputVars == << request, phonemes, modelSpeak, output_config, chunk_size0 >>
lazyVars == << lazyState, sentence_phonemes, lazyCalls, lazyOut, lazyEnd, lazyNexts >>
parVars == << parState, parPhase, parAttempts, calculated_result, precalculated_results,
              parAll, parOut, parEnd, completion_order >>
taskVars == << taskPc, phIter, chunk_size, num_processed_chunks, num_chunks, pulled,
               reqSizes, sendFailed >>
chanVars == << chan, sent >>
rxVars == << rxAlive, received, rxEnd >>
rtVars == << rtState, taskVars, chanVars, rxVars >>
fileVars == << fileState, fileResult, fileWritten >>
sonicVars == << sonicIn, sonicCall, sonicCalls, sonicLive >>
vars == << inputVars, phonemizeCalls, lazyVars, parVars, rtVars, fileVars, sonicVars >>

\* ------------------------------------------------ SpeechSynthesisTaskProvider
Units == IF phonemes.ok THEN phonemes.units ELSE << >>
NumUnits == Len(Units)

get_phonemes == phonemes

process_one_sentence(ph) ==
    LET wave_samples == modelSpeak[ph]
    IN  IF ~wave_samples.ok THEN wave_samples
        ELSE IF IsSome(output_config) THEN apply(Unwrap(output_config), wave_samples.audio)
        ELSE OkAudio(wave_samples.audio)

\* ------------------------------------------------------ PiperSpeechStreamLazy
\* The caller is one thread: it calls synthesize_parallel, which blocks until
\* the Vec is collected, then synthesize_lazy on the same text, and reads the
\* two streams in any interleaving.
callerBlocked == parState \in { "new", "collecting" }

PiperSpeechStreamLazy_new ==
    /\ request = "batch"
    /\ ~callerBlocked
    /\ lazyState = "new"
    /\ phonemizeCalls' = [phonemizeCalls EXCEPT !.lazy = @ + 1]
    /\ IF get_phonemes.ok
       THEN /\ lazyState' = "ready"
            /\ sentence_phonemes' = get_phonemes.units
       ELSE /\ lazyState' = "failed"
            /\ UNCHANGED sentence_phonemes
    /\ UNCHANGED << inputVars, fileVars, sonicVars, lazyCalls, lazyOut, lazyEnd, lazyNexts,
                    parVars, rtVars >>

\* A mutant of lazy_next_item: an error ends the sequence.
lazy_next_item_stop_on_error(result) == IF result.ok THEN Some(result) ELSE None

\* The match of next(): Ok(ws) => Some(Ok(ws)), Err(e) => Some(Err(e)).
lazy_next_item(result) == Some(result)

PiperSpeechStreamLazy_next ==
    /\ request = "batch"
    /\ ~callerBlocked
    /\ lazyState = "ready"
    /\ ~lazyEnd
    /\ lazyNexts' = lazyNexts + 1
    /\ IF sentence_phonemes = << >>
       THEN /\ lazyEnd' = TRUE
            /\ UNCHANGED << sentence_phonemes, lazyCalls, lazyOut >>
       ELSE LET ph == Head(sentence_phonemes)
                item == lazy_next_item(process_one_sentence(ph))
            IN  /\ sentence_phonemes' = Tail(sentence_phonemes)
                /\ lazyCalls' = Append(lazyCalls, ph)
                /\ IF IsSome(item)
                   THEN lazyOut' = Append(lazyOut, Unwrap(item)) /\ UNCHANGED lazyEnd
                   ELSE lazyEnd' = TRUE /\ UNCHANGED lazyOut
    /\ UNCHANGED << inputVars, fileVars, sonicVars, phonemizeCalls, lazyState, parVars, rtVars >>

\* -------------------------------------------------- PiperSpeechStreamParallel
\* The slot of the collected Vec a unit's result has not reached yet.
Unfilled == ErrAudio("unfilled")

\* get_phonemes()? and the start of par_iter().map(..).collect(): the caller
\* blocks in new() while the pool works.
PiperSpeechStreamParallel_new ==
    /\ request \in { "batch", "file" }
    /\ parState = "new"
    /\ phonemizeCalls' = [phonemizeCalls EXCEPT !.parallel = @ + 1]
    /\ IF get_phonemes.ok
       THEN /\ parState' = "collecting"
            /\ parPhase' = [i \in 1..Len(get_phonemes.units) |-> "pending"]
            /\ parAttempts' = [i \in 1..Len(get_phonemes.units) |-> 0]
            /\ calculated_result' = [i \in 1..Len(get_phonemes.units) |-> Unfilled]
       ELSE /\ parState' = "failed"
            /\ UNCHANGED << parPhase, parAttempts, calculated_result >>
    /\ UNCHANGED << inputVars, fileVars, sonicVars, lazyVars, precalculated_results, parAll, parOut, parEnd,
                    completion_order, rtVars >>

\* A pool worker takes the work item of unit i.
par_start(i) ==
    /\ request \in { "batch", "file" }
    /\ parState = "collecting"
    /\ parPhase[i] = "pending"
    /\ parPhase' = [parPhase EXCEPT ![i] = "running"]
    /\ parAttempts' = [parAttempts EXCEPT ![i] = @ + 1]
    /\ UNCHANGED << inputVars, fileVars, sonicVars, phonemizeCalls, lazyVars, parState, calculated_result,
                    precalculated_results, parAll, parOut, parEnd, completion_order, rtVars >>

\* A mutant of collect_indexed: a first-come queue, the result goes to the
\* first slot no result has reached.
collect_first_come(vec, i, result) ==
    LET free == {j \in DOMAIN vec : parPhase[j] # "done"}
        slot == CHOOSE j \in free : \A k \in free : j <= k
    IN  [vec EXCEPT ![slot] = result]

\* rayon's collect of an indexed parallel iterator: the result of item i is
\* written to position i.
collect_indexed(vec, i, result) == [vec EXCEPT ![i] = result]

\* The worker finishes unit i: the closure of map() has run.
par_finish(i) ==
    /\ request \in { "batch", "file" }
    /\ parState = "collecting"
    /\ parPhase[i] = "running"
    /\ calculated_result' = collect_indexed(calculated_result, i, process_one_sentence(Units[i]))
    /\ parPhase' = [parPhase EXCEPT ![i] = "done"]
    /\ completion_order' = Append(completion_order, i)
    /\ UNCHANGED << inputVars, fileVars, sonicVars, phonemizeCalls, lazyVars, parState, parAttempts,
                    precalculated_results, parAll, parOut, parEnd, rtVars >>

\* A mutant of collected_vec: collecting into a Result, the Vec is cut at the
\* first error.
collected_vec_short_circuit(vec) ==
    LET bad == {j \in DOMAIN vec : ~vec[j].ok}
    IN  IF bad = {} THEN vec
        ELSE SubSeq(vec, 1, CHOOSE j \in bad : \A k \in bad : j <= k)

\* collect() into Vec<PiperAudioResult> keeps every item, Ok or Err.
collected_vec(vec) == vec

\* Every work item is done: collect() returns and new() returns Ok(Self).
par_collect ==
    /\ request \in { "batch", "file" }
    /\ parState = "collecting"
    /\ \A i \in DOMAIN parPhase : parPhase[i] = "done"
    /\ parState' = "ready"
    /\ parAll' = collected_vec(calculated_result)
    /\ precalculated_results' = collected_vec(calculated_result)
    /\ UNCHANGED << inputVars, fileVars, sonicVars, phonemizeCalls, lazyVars, parPhase, parAttempts, calculated_result,
                    parOut, parEnd, completion_order, rtVars >>

PiperSpeechStreamParallel_next ==
    /\ request = "batch"
    /\ parState = "ready"
    /\ ~parEnd
    /\ IF precalculated_results = << >>
       THEN parEnd' = TRUE /\ UNCHANGED << precalculated_results, parOut >>
       ELSE /\ parOut' = Append(parOut, Head(precalculated_results))
            /\ precalculated_results' = Tail(precalculated_results)
            /\ UNCHANGED parEnd
    /\ UNCHANGED << inputVars, fileVars, sonicVars, phonemizeCalls, lazyVars, parState, parPhase, parAttempts,
                    calculated_result, parAll, completion_order, rtVars >>

\* ------------------------------------------------------ RealtimeSpeechStream
\* A mutant of spawned_task: the task is spawned before the ? on get_phonemes.
spawned_task_before_phonemes(phonemes_ok) == "loop"

\* SYNTHESIS_THREAD_POOL.spawn runs only after get_phonemes()? has passed.
spawned_task(phonemes_ok) == IF phonemes_ok THEN "loop" ELSE "none"

RealtimeSpeechStream_new ==
    /\ request = "streamed"
    /\ rtState = "new"
    /\ phonemizeCalls' = [phonemizeCalls EXCEPT !.streamed = @ + 1]
    /\ rtState' = IF get_phonemes.ok THEN "streaming" ELSE "failed"
    /\ taskPc' = spawned_task(get_phonemes.ok)
    /\ phIter' = get_phonemes.units
    /\ chunk_size' = chunk_size0
    /\ num_processed_chunks' = 0
    /\ UNCHANGED << inputVars, fileVars, sonicVars, lazyVars, parVars, num_chunks, pulled, reqSizes, sendFailed,
                    chanVars, rxVars >>

\* The unit whose stream the task is in, and the place of the next item in it.
curUnit == Len(reqSizes)
nextIdx == Cardinality({i \in 1..Len(sent) : sent[i].unit = curUnit}) + 1

\* A mutant of channel_push: the queue hands out the newest item first.
channel_push_front(queue, item) == << item >> \o queue

\* flume's unbounded channel is a FIFO queue.
channel_push(queue, item) == Append(queue, item)

\* tx.send(item): Err(SendError) once the Receiver is dropped.
send(item) ==
    IF rxAlive
    THEN /\ chan' = channel_push(chan, item)
         /\ sent' = Append(sent, item)
         /\ UNCHANGED sendFailed
    ELSE /\ UNCHANGED chanVars
         /\ sendFailed' = TRUE

\* A mutant of on_send_error: the SendError is dropped and the task goes on.
on_send_error_ignored(pc) == pc

\* The ? on tx.send in process_rt_stream and Err(_) => return in the task.
on_send_error(pc) == "done"

\* chunk_size * chunk_factor * num_processed_chunks, as a release build computes it.
chunk_factor == 1
next_chunk_size(size, processed) ==
    IF processed # 0 THEN WrappingMul(WrappingMul(size, chunk_factor), processed) ELSE size

\* The for loop has no unit left: the closure returns and tx is dropped.
rt_loop_end ==
    /\ request = "streamed"
    /\ taskPc = "loop"
    /\ phIter = << >>
    /\ taskPc' = "done"
    /\ UNCHANGED << inputVars, fileVars, sonicVars, phonemizeCalls, lazyVars, parVars, rtState, phIter, chunk_size,
                    num_processed_chunks, num_chunks, pulled, reqSizes, sendFailed,
                    chanVars, rxVars >>

\* A debug build panics on the overflowing product; the pool has no panic
\* handler, so the process aborts.
rt_overflow_panic ==
    /\ request = "streamed"
    /\ taskPc = "loop"
    /\ phIter # << >>
    /\ num_processed_chunks # 0
    /\ MulOverflows(chunk_size * chunk_factor, num_processed_chunks)
    /\ taskPc' = "aborted"
    /\ UNCHANGED << inputVars, fileVars, sonicVars, phonemizeCalls, lazyVars, parVars, rtState, phIter, chunk_size,
                    num_processed_chunks, num_chunks, pulled, reqSizes, sendFailed,
                    chanVars, rxVars >>

\* The next unit: the chunk size is updated and stream_synthesis is called.
\* On Err the error is sent, whatever send answers, and the task returns.
rt_stream_synthesis ==
    /\ request = "streamed"
    /\ taskPc = "loop"
    /\ phIter # << >>
    /\ chunk_size' = next_chunk_size(chunk_size, num_processed_chunks)
    /\ reqSizes' = Append(reqSizes, chunk_size')
    /\ phIter' = Tail(phIter)
    /\ \/ /\ taskPc' = "stream"
          /\ num_chunks' = 0
          /\ UNCHANGED << chanVars, sendFailed >>
       \/ /\ send([unit |-> curUnit + 1, idx |-> 1, silence |-> FALSE,
                   result |-> ErrSamples(ModelError)])
          /\ taskPc' = "done"
          /\ UNCHANGED num_chunks
    /\ UNCHANGED << inputVars, fileVars, sonicVars, phonemizeCalls, lazyVars, parVars, rtState,
                    num_processed_chunks, pulled, rxVars >>

\* What the model's stream yields for unit u as its item idx: a chunk whose
\* samples carry the unit's number (two samples first, one sample in the later,
\* shorter chunks), or an error.
StreamItems(u, idx) ==
    { OkSamples(IF idx = 1 THEN << u, u >> ELSE << u >>), ErrSamples(StreamError) }

\* What process_rt_stream sends for one item of the stream.
stream_item_to_send(result) ==
    IF IsSome(output_config)
    THEN IF result.ok THEN apply_to_raw_samples(Unwrap(output_config), result.samples)
         ELSE ErrSamples(result.err)
    ELSE result

\* Whether process_rt_stream counts the item in num_chunks.
stream_item_counted(result) == IF IsSome(output_config) THEN result.ok ELSE TRUE

\* One turn of the for loop over the stream in process_rt_stream.
rt_stream_item ==
    /\ request = "streamed"
    /\ taskPc = "stream"
    /\ pulled < MaxItems
    /\ \E result \in StreamItems(curUnit, nextIdx) :
          /\ send([unit |-> curUnit, idx |-> nextIdx, silence |-> FALSE,
                   result |-> stream_item_to_send(result)])
          /\ IF rxAlive
             THEN /\ num_chunks' = IF stream_item_counted(result) THEN num_chunks + 1 ELSE num_chunks
                  /\ UNCHANGED taskPc
             ELSE /\ taskPc' = on_send_error(taskPc)
                  /\ UNCHANGED num_chunks
    /\ pulled' = pulled + 1
    /\ UNCHANGED << inputVars, fileVars, sonicVars, phonemizeCalls, lazyVars, parVars, rtState, phIter, chunk_size,
                    num_processed_chunks, reqSizes, rxVars >>

\* A mutant of silence_due: silence only after the last unit.
silence_due_after_last_unit(config, remaining) ==
    IsSome(config.appended_silence_ms) /\ remaining = << >>

\* if let Some(silence_ms) = output_config.appended_silence_ms, at the end of
\* process_rt_stream, whatever units remain.
silence_due(config, remaining) == IsSome(config.appended_silence_ms)

\* The stream is exhausted: the silence is sent if configured, process_rt_stream
\* returns Ok(num_chunks) and the task adds it to num_processed_chunks.
rt_stream_end ==
    /\ request = "streamed"
    /\ taskPc = "stream"
    /\ IF IsSome(output_config) /\ silence_due(Unwrap(output_config), phIter)
       THEN /\ send([unit |-> curUnit, idx |-> nextIdx, silence |-> TRUE,
                     result |-> generate_silence(Unwrap(output_config),
                                    Unwrap(Unwrap(output_config).appended_silence_ms),
                                    AudioInfo.sample_rate)])
            /\ IF rxAlive
               THEN /\ taskPc' = "loop"
                    /\ num_processed_chunks' = num_processed_chunks + num_chunks
               ELSE /\ taskPc' = on_send_error(taskPc)
                    /\ UNCHANGED num_processed_chunks
       ELSE /\ taskPc' = "loop"
            /\ num_processed_chunks' = num_processed_chunks + num_chunks
            /\ UNCHANGED << chanVars, sendFailed >>
    /\ UNCHANGED << inputVars, fileVars, sonicVars, phonemizeCalls, lazyVars, parVars, rtState, phIter, chunk_size,
                    num_chunks, pulled, reqSizes, rxVars >>

\* recv() takes the oldest item of the queue.
channel_pop(queue) == [item |-> Head(queue), rest |-> Tail(queue)]

\* self.0.recv().ok(): the oldest item; None once the queue is empty and the
\* Sender is dropped; blocks while the queue is empty and the Sender lives.
RealtimeSpeechStream_next ==
    /\ request = "streamed"
    /\ rtState = "streaming"
    /\ taskPc # "aborted"
    /\ rxAlive
    /\ ~rxEnd
    /\ IF chan # << >>
       THEN /\ received' = Append(received, channel_pop(chan).item)
            /\ chan' = channel_pop(chan).rest
            /\ UNCHANGED rxEnd
       ELSE /\ taskPc = "done"
            /\ rxEnd' = TRUE
            /\ UNCHANGED << received, chan >>
    /\ UNCHANGED << inputVars, fileVars, sonicVars, phonemizeCalls, lazyVars, parVars, rtState, taskVars, sent, rxAlive >>

\* The consumer drops the RealtimeSpeechStream, and the Receiver with it.
rt_drop ==
    /\ request = "streamed"
    /\ rtState = "streaming"
    /\ taskPc # "aborted"
    /\ rxAlive
    /\ rxAlive' = FALSE
    /\ UNCHANGED << inputVars, fileVars, sonicVars, phonemizeCalls, lazyVars, parVars, rtState, taskVars, chanVars,
                    received, rxEnd >>

\* ---------------------------------------------------------- synthesize_to_file
\* PiperResult<()>
FileOk == [ok |-> TRUE, err |-> ""]
FileErr(e) == [ok |-> FALSE, err |-> e]
EmptyOutputError == "No speech data to write"
WaveWriterError == "WaveWriterError"

\* What write_wave_samples_to_file answers.
WriterOutcomes == { FileOk, FileErr(WaveWriterError) }

\* A mutant of for_each_result: an Err item is skipped.
RECURSIVE for_each_result_skip_errors(_, _)
for_each_result_skip_errors(results, samples) ==
    IF results = << >> THEN OkSamples(samples)
    ELSE IF Head(results).ok
         THEN for_each_result_skip_errors(Tail(results), samples \o Head(results).audio.samples)
    ELSE for_each_result_skip_errors(Tail(results), samples)

\* The for loop over the stream: Ok(ws) appends ws to samples, Err(e) returns
\* Err(e).
RECURSIVE for_each_result(_, _)
for_each_result(results, samples) ==
    IF results = << >> THEN OkSamples(samples)
    ELSE IF Head(results).ok
         THEN for_each_result(Tail(results), samples \o Head(results).audio.samples)
    ELSE ErrSamples(Head(results).err)

\* A mutant of no_speech_data: the check is missing.
no_speech_data_unchecked(samples) == FALSE

\* samples.is_empty()
no_speech_data(samples) == samples = << >>

\* synthesize_to_file once synthesize_parallel(..)? has returned: the error of
\* get_phonemes leaves through the ?, otherwise the loop runs, the empty
\* buffer is refused and the samples go to the wave file writer.
synthesize_to_file ==
    /\ request = "file"
    /\ fileState = "new"
    /\ parState \in { "ready", "failed" }
    /\ fileState' = "returned"
    /\ precalculated_results' = << >>
    /\ LET collected == IF parState = "failed" THEN ErrSamples(get_phonemes.err)
                        ELSE for_each_result(precalculated_results, << >>)
       IN  IF ~collected.ok
           THEN fileResult' = FileErr(collected.err) /\ UNCHANGED fileWritten
           ELSE IF no_speech_data(collected.samples)
                THEN fileResult' = FileErr(EmptyOutputError) /\ UNCHANGED fileWritten
           ELSE /\ fileWritten' = Append(fileWritten, collected.samples)
                /\ fileResult' \in WriterOutcomes
    /\ UNCHANGED << inputVars, sonicVars, phonemizeCalls, lazyVars, parState, parPhase,
                    parAttempts, calculated_result, parAll, parOut, parEnd, completion_order,
                    rtVars >>

\* ------------------------------------------- AudioOutputConfig called directly
\* The knobs a configuration sets and the silence it appends.
SonicConfigs ==
    { MkConfig(k[1], k[2], k[3], s) :
        k \in { << None, None, None >>, << Some(2), None, None >>, << None, Some(2), None >>,
                << None, None, Some(2) >>, << Some(2), Some(2), Some(2) >> },
        s \in { None, Some(1), Some(2) } }
\* A sample is a float in units of 1/ShortStep of a 16-bit step.
SampleValues == 0..ShortStep
SampleBuffers == UNION { [1..n -> SampleValues] : n \in 0..MaxSamples }
\* time_ms and sample_rate of generate_silence: up to MaxSilenceMs at the
\* model's rate, and half a second at 22050 Hz.  The long request is drawn
\* with the empty sample buffer only: the buffer is no argument of
\* generate_silence.
SilenceRequests ==
    { << t, SampleRate >> : t \in 0..MaxSilenceMs } \cup { << 1, 22050 >>, << 500, 22050 >> }

NoSonicIn == [config |-> MkConfig(None, None, None, None), samples |-> << >>,
              time_ms |-> 0, sample_rate |-> 0]
CallRecord(fn, r, out, info, outcome) ==
    [fn |-> fn, ok |-> r.ok, out |-> out, err |-> r.err, info |-> info,
     created |-> outcome.created, destroyed |-> outcome.destroyed,
     silence_samples |-> outcome.silence_samples, transformed |-> outcome.transformed]
NoCall == CallRecord("none", OkSamples(<< >>), << >>, AudioInfo,
                     CallOutcome(OkSamples(<< >>), 0, 0, << >>, << >>))
\* The Audio the caller hands to apply.
SonicAudio == [samples |-> sonicIn.samples,
               info |-> [AudioInfo EXCEPT !.sample_rate = sonicIn.sample_rate]]

\* The streams a call created and left alive stay alive after it.
sonic_returns(outcome) ==
    /\ sonicCalls < MaxCalls
    /\ sonicCalls' = sonicCalls + 1
    /\ sonicLive' = sonicLive + outcome.created - outcome.destroyed

call_apply_to_raw_samples ==
    /\ request = "sonic"
    /\ LET outcome == apply_to_raw_samples_call(sonicIn.config, sonicIn.samples)
       IN  /\ sonic_returns(outcome)
           /\ sonicCall' = CallRecord("apply_to_raw_samples", outcome.result,
                                      outcome.result.samples, AudioInfo, outcome)
    /\ UNCHANGED << inputVars, fileVars, sonicIn, phonemizeCalls, lazyVars, parVars, rtVars >>

call_generate_silence ==
    /\ request = "sonic"
    /\ LET outcome == generate_silence_call(sonicIn.config, sonicIn.time_ms, sonicIn.sample_rate)
       IN  /\ sonic_returns(outcome)
           /\ sonicCall' = CallRecord("generate_silence", outcome.result,
                                      outcome.result.samples, AudioInfo, outcome)
    /\ UNCHANGED << inputVars, fileVars, sonicIn, phonemizeCalls, lazyVars, parVars, rtVars >>

call_apply ==
    /\ request = "sonic"
    /\ LET outcome == apply_call(sonicIn.config, SonicAudio)
       IN  /\ sonic_returns(outcome)
           /\ sonicCall' = CallRecord("apply", outcome.result, outcome.result.audio.samples,
                                      outcome.result.audio.info, outcome)
    /\ UNCHANGED << inputVars, fileVars, sonicIn, phonemizeCalls, lazyVars, parVars, rtVars >>

\* --------------------------------------------------------------- behaviours
\* What speak_one_sentence answers for unit u: an error, or audio whose samples
\* carry the unit's number (two samples for an odd unit, one for an even one).
SpeakOutcomes(u) ==
    { ErrAudio(ModelError), OkAudio(MkAudio(IF u % 2 = 1 THEN << u, u >> ELSE << u >>)) }

PhonemeOutcomes == { ErrPhonemes(PhonemizeError) } \cup { OkPhonemes([i \in 1..n |-> i]) : n \in 0..MaxUnits }

InitStreams ==
    /\ phonemizeCalls = [lazy |-> 0, parallel |-> 0, streamed |-> 0]
    /\ lazyState = "new"
    /\ sentence_phonemes = << >>
    /\ lazyCalls = << >>
    /\ lazyOut = << >>
    /\ lazyEnd = FALSE
    /\ parState = "new"
    /\ parPhase = << >>
    /\ parAttempts = << >>
    /\ calculated_result = << >>
    /\ precalculated_results = << >>
    /\ parAll = << >>
    /\ parOut = << >>
    /\ parEnd = FALSE
    /\ completion_order = << >>
    /\ rtState = "new"
    /\ taskPc = "none"
    /\ phIter = << >>
    /\ chunk_size = 0
    /\ num_processed_chunks = 0
    /\ num_chunks = 0
    /\ pulled = 0
    /\ chan = << >>
    /\ rxAlive = TRUE
    /\ received = << >>
    /\ rxEnd = FALSE
    /\ sent = << >>
    /\ reqSizes = << >>
    /\ sendFailed = FALSE
    /\ lazyNexts = 0
    /\ fileState = "new"
    /\ fileResult = FileOk
    /\ fileWritten = << >>
    /\ sonicCall = NoCall
    /\ sonicCalls = 0
    /\ sonicLive = 0

\* The caller uses synthesize_lazy and synthesize_parallel on one text.
InitBatch ==
    /\ request = "batch"
    /\ phonemes \in PhonemeOutcomes
    /\ modelSpeak \in { f \in [1..Len(phonemes.units) -> UNION { SpeakOutcomes(u) : u \in 1..MaxUnits }] :
                          \A u \in DOMAIN f : f[u] \in SpeakOutcomes(u) }
    /\ output_config \in OutputConfigs
    /\ chunk_size0 = 1
    /\ sonicIn = NoSonicIn
    /\ InitStreams

\* The caller uses synthesize_streamed.
InitStreamed ==
    /\ request = "streamed"
    /\ phonemes \in PhonemeOutcomes
    /\ modelSpeak = << >>
    /\ output_config \in OutputConfigs
    /\ chunk_size0 \in { 1, MaxChunkSize }
    /\ sonicIn = NoSonicIn
    /\ InitStreams

Init == InitBatch \/ InitStreamed

Next ==
    \/ PiperSpeechStreamLazy_new
    \/ PiperSpeechStreamLazy_next
    \/ PiperSpeechStreamParallel_new
    \/ \E i \in 1..MaxUnits : i \in DOMAIN parPhase /\ par_start(i)
    \/ \E i \in 1..MaxUnits : i \in DOMAIN parPhase /\ par_finish(i)
    \/ par_collect
    \/ PiperSpeechStreamParallel_next
    \/ RealtimeSpeechStream_new
    \/ rt_loop_end
    \/ rt_overflow_panic
    \/ rt_stream_synthesis
    \/ rt_stream_item
    \/ rt_stream_end
    \/ RealtimeSpeechStream_next
    \/ rt_drop

Spec == Init /\ [][Next]_vars

\* The caller uses synthesize_to_file; a unit may also give empty audio.
FileSpeakOutcomes(u) == SpeakOutcomes(u) \cup { OkAudio(MkAudio(<< >>)) }

InitFile ==
    /\ request = "file"
    /\ phonemes \in PhonemeOutcomes
    /\ modelSpeak \in { f \in [1..Len(phonemes.units) ->
                                 UNION { FileSpeakOutcomes(u) : u \in 1..MaxUnits }] :
                          \A u \in DOMAIN f : f[u] \in FileSpeakOutcomes(u) }
    /\ output_config \in OutputConfigs
    /\ chunk_size0 = 1
    /\ sonicIn = NoSonicIn
    /\ InitStreams

NextFile ==
    \/ PiperSpeechStreamParallel_new
    \/ \E i \in 1..MaxUnits : i \in DOMAIN parPhase /\ par_start(i)
    \/ \E i \in 1..MaxUnits : i \in DOMAIN parPhase /\ par_finish(i)
    \/ par_collect
    \/ synthesize_to_file

SpecFile == InitFile /\ [][NextFile]_vars

\* The caller calls apply_to_raw_samples, generate_silence and apply.
InitSonic ==
    /\ request = "sonic"
    /\ phonemes = OkPhonemes(<< >>)
    /\ modelSpeak = << >>
    /\ output_config = None
    /\ chunk_size0 = 1
    /\ \E c \in SonicConfigs, b \in SampleBuffers, q \in SilenceRequests :
          /\ q[1] > MaxSilenceMs => b = << >>
          /\ sonicIn = [config |-> c, samples |-> b, time_ms |-> q[1], sample_rate |-> q[2]]
    /\ InitStreams

NextSonic ==
    \/ call_apply_to_raw_samples
    \/ call_generate_silence
    \/ call_apply

SpecSonic == InitSonic /\ [][NextSonic]_vars

\* The pool runs the spawned task, every call of the model returns, and the
\* consumer keeps calling next.
taskStep == rt_loop_end \/ rt_overflow_panic \/ rt_stream_synthesis \/ rt_stream_item \/ rt_stream_end
SpecLive ==
    /\ Init
    /\ [][Next]_vars
    /\ WF_vars(RealtimeSpeechStream_new)
    /\ WF_vars(taskStep)
    /\ WF_vars(RealtimeSpeechStream_next)

\* ================================================================== claims
\* ---------------------------------------------------------------------- C1
\* C1: whatever order the work items finish in, the i-th item the
\* Eager-Parallel stream yields is the outcome of process_one_sentence on the
\* i-th pronunciation unit.
C1_ParallelOrder ==
    \A i \in 1..Len(parOut) :
        /\ i <= NumUnits
        /\ parOut[i] = process_one_sentence(Units[i])

\* Units A, B, C finished in the order C, A, B and all three were yielded.
C1_Witness ==
    /\ parEnd
    /\ Len(parOut) = 3
    /\ completion_order = << 3, 1, 2 >>
    /\ parOut[1] # parOut[2] /\ parOut[2] # parOut[3] /\ parOut[1] # parOut[3]

\* ---------------------------------------------------------------------- C2
\* C2: when synthesize_parallel returns for n units, every unit has been
\* attempted exactly once and the result Vec has n elements, position i holding
\* unit i's own outcome: an error exactly where the unit fails, audio elsewhere.
C2_ParallelEveryUnitOnce ==
    /\ \A i \in DOMAIN parAttempts : parAttempts[i] <= 1
    /\ parState = "ready" =>
          /\ DOMAIN parAttempts = 1..NumUnits
          /\ \A i \in 1..NumUnits : parAttempts[i] = 1
          /\ Len(parAll) = NumUnits
          /\ \A i \in 1..NumUnits :
                /\ parAll[i] = process_one_sentence(Units[i])
                /\ parAll[i].ok <=> process_one_sentence(Units[i]).ok
                /\ ~parAll[i].ok => parAll[i].err = process_one_sentence(Units[i]).err

\* Unit 2 of 3 fails with the model's error; units 1 and 3 carry audio.
C2_Witness ==
    /\ parState = "ready"
    /\ Len(parAll) = 3
    /\ parAll[1].ok /\ parAll[1].audio.samples # << >>
    /\ ~parAll[2].ok /\ parAll[2].err = ModelError
    /\ parAll[3].ok /\ parAll[3].audio.samples # << >>

\* ---------------------------------------------------------------------- C3
\* C3: on the same text, configuration and model, the Sequential stream read
\* to its end and the Eager-Parallel stream read to its end have yielded the
\* same sequence of results, and one fails to construct exactly if the other does.
C3_LazyEqualsParallel ==
    /\ (lazyEnd /\ parEnd) => lazyOut = parOut
    /\ (lazyState # "new" /\ parState # "new") => (lazyState = "failed" <=> parState = "failed")

\* Both streams were read to the end of three units, some failing, some not.
C3_Witness ==
    /\ lazyEnd /\ parEnd
    /\ Len(lazyOut) = 3 /\ Len(parOut) = 3
    /\ \E i, j \in 1..3 : lazyOut[i].ok /\ ~lazyOut[j].ok /\ i > j

\* ---------------------------------------------------------------------- C4
\* C4: in the Realtime-Chunked strategy an error item is the terminal item:
\* after it the task sends nothing further.
C4_ErrorIsTerminalItem ==
    \A i \in 1..Len(sent) : ~sent[i].result.ok => i = Len(sent)

\* ---------------------------------------------------------------------- C5
SilenceConfigured == IsSome(output_config) /\ IsSome(Unwrap(output_config).appended_silence_ms)
SilenceItems == { i \in 1..Len(sent) : sent[i].silence }
ItemsOfUnit(u) == { i \in 1..Len(sent) : sent[i].unit = u }

\* The task ran through every unit: no send failed and stream_synthesis
\* answered Ok for each.
StreamedToEnd ==
    /\ taskPc = "done"
    /\ ~sendFailed
    /\ phIter = << >>
    /\ \A i \in 1..Len(sent) : sent[i].result.err # ModelError

\* C5 as claimed: with a trailing silence configured, a stream of one or more
\* units carries exactly one silence item, and it is the final item.
C5_OneFinalSilence ==
    (SilenceConfigured /\ StreamedToEnd /\ NumUnits >= 1) =>
        /\ Cardinality(SilenceItems) = 1
        /\ sent[Len(sent)].silence

\* process_rt_stream has returned Ok for unit u.
UnitStreamed(u) ==
    \/ u < curUnit
    \/ u = curUnit /\ taskPc \in { "loop", "aborted" }
    \/ u = curUnit /\ StreamedToEnd

\* C5 as amended: with a trailing silence configured, every unit whose stream
\* was processed to its end is followed by exactly one silence item, placed
\* after all items of that unit and before every item of the next; a request
\* of n units that runs to its end carries n silence items, the last of them
\* the final item.  Without the configuration no silence item is sent.
C5_SilenceAfterEveryUnit ==
    /\ ~SilenceConfigured => SilenceItems = {}
    /\ \A i, j \in 1..Len(sent) : i < j => sent[i].unit <= sent[j].unit
    /\ SilenceConfigured =>
          /\ \A u \in 1..curUnit :
                /\ Cardinality(SilenceItems \cap ItemsOfUnit(u)) <= 1
                /\ \A i \in SilenceItems \cap ItemsOfUnit(u) : \A j \in ItemsOfUnit(u) : j <= i
                /\ UnitStreamed(u) => Cardinality(SilenceItems \cap ItemsOfUnit(u)) = 1
          /\ (StreamedToEnd /\ NumUnits >= 1) =>
                /\ Cardinality(SilenceItems) = NumUnits
                /\ sent[Len(sent)].silence

\* Two units were streamed to the end, each with a chunk and then its silence.
C5_Witness ==
    /\ SilenceConfigured
    /\ StreamedToEnd
    /\ NumUnits = 2
    /\ Len(sent) = 4
    /\ ~sent[1].silence /\ sent[2].silence /\ ~sent[3].silence /\ sent[4].silence

\* ---------------------------------------------------------------------- C6
\* Chunks sent for the units before unit k.
ChunksBefore(k) ==
    Cardinality({ i \in 1..Len(sent) : sent[i].unit < k /\ ~sent[i].silence /\ sent[i].result.ok })

\* No error item has been sent and no send has failed, so every count of the
\* chunks so far agrees.
CleanRun == ~sendFailed /\ \A i \in 1..Len(sent) : sent[i].result.ok

\* C6: unit 0 is requested with the caller's chunk size, and every later unit
\* with base chunk size * growth factor * chunks emitted for the units before
\* it.  Stated for the runs where that product is positive and fits usize.
C6_SizeLinearInChunkCount ==
    \A k \in 1..Len(reqSizes) :
        /\ k = 1 => reqSizes[k] = chunk_size0
        /\ (k > 1 /\ CleanRun /\ ChunksBefore(k) > 0
              /\ reqSizes[k - 1] * chunk_factor * ChunksBefore(k) < UsizeModulus) =>
                 reqSizes[k] = chunk_size0 * chunk_factor * ChunksBefore(k)

\* ---------------------------------------------------------------------- C7
\* C7: the chunk size requested from stream_synthesis never decreases from one
\* unit to the next.
C7_SizesNonDecreasing ==
    \A k \in 2..Len(reqSizes) : reqSizes[k] >= reqSizes[k - 1]

\* ---------------------------------------------------------------------- C8
IsPrefix(p, q) == Len(p) <= Len(q) /\ SubSeq(q, 1, Len(p)) = p

\* C8: the consumer receives the items the task sent, in the order sent, none
\* lost or doubled: what it has received is a prefix of what was sent, the rest
\* still queued, and at end of stream it has received all of it; the items of
\* unit i come before those of unit j > i, and a unit's items in stream order.
C8_ReceivedIsSent ==
    /\ IsPrefix(received, sent)
    /\ rxAlive => received \o chan = sent
    /\ rxEnd => received = sent
    /\ \A i, j \in 1..Len(received) :
          i < j => \/ received[i].unit < received[j].unit
                   \/ received[i].unit = received[j].unit /\ received[i].idx < received[j].idx

\* The consumer reached end of stream with three items of two units.
C8_Witness ==
    /\ rxEnd
    /\ Len(received) = 3
    /\ received[1].unit = 1 /\ received[2].unit = 1 /\ received[3].unit = 2

\* ---------------------------------------------------------------------- C9
\* C9: once the Receiver is dropped nothing reaches the channel; the item the
\* task pulls next meets a failed send, and with that failed send the task is
\* done: from then on no stream_synthesis call, no pull, no send, and nothing
\* reaches the consumer.
C9_SendFailureEndsTask ==
    /\ [](sendFailed => (taskPc = "done" /\ ~rxAlive))
    /\ [][~rxAlive => UNCHANGED << chanVars, received, rxEnd >>]_vars
    /\ [][(~rxAlive /\ pulled' # pulled) => (sendFailed' /\ taskPc' = "done")]_vars
    /\ [][sendFailed => UNCHANGED << taskVars, chanVars, rxVars >>]_vars

\* A send failed while units were still waiting to be synthesized.
C9_Witness ==
    /\ sendFailed
    /\ taskPc = "done"
    /\ phIter # << >>
    /\ Len(sent) >= 1

\* --------------------------------------------------------------------- C10
\* C10: each strategy calls phonemize_text exactly once, in new(); if it
\* fails, new() fails and no audio work has happened or ever happens: no
\* process_one_sentence or stream_synthesis call, no task in the pool, no item.
C10_PhonemizeOnceFailFast ==
    /\ phonemizeCalls.lazy = (IF lazyState = "new" THEN 0 ELSE 1)
    /\ phonemizeCalls.parallel = (IF parState = "new" THEN 0 ELSE 1)
    /\ phonemizeCalls.streamed = (IF rtState = "new" THEN 0 ELSE 1)
    /\ lazyState = "failed" <=> (lazyState # "new" /\ ~phonemes.ok)
    /\ parState = "failed" <=> (parState # "new" /\ ~phonemes.ok)
    /\ rtState = "failed" <=> (rtState # "new" /\ ~phonemes.ok)
    /\ ~phonemes.ok =>
          /\ lazyCalls = << >> /\ lazyOut = << >>
          /\ \A i \in DOMAIN parAttempts : parAttempts[i] = 0
          /\ parAll = << >> /\ parOut = << >>
          /\ taskPc = "none"
          /\ reqSizes = << >> /\ pulled = 0
          /\ sent = << >> /\ chan = << >> /\ received = << >>

\* synthesize_streamed failed on phonemization, after its one call.
C10_Witness ==
    /\ request = "streamed"
    /\ rtState = "failed"
    /\ phonemizeCalls.streamed = 1
    /\ ~phonemes.ok

\* ---------------------------------------------------------------------- C11
\* Every collected unit result is Ok with no samples (also when there is no
\* unit at all).
AllUnitsEmpty ==
    /\ parState = "ready"
    /\ \A i \in DOMAIN parAll : parAll[i].ok /\ parAll[i].audio.samples = << >>

\* C11: synthesize_to_file on a text with zero units, or whose units all give
\* empty audio, returns the error "No speech data to write" and the wave file
\* writer is never invoked.
C11_EmptyOutputFails ==
    (fileState = "returned" /\ AllUnitsEmpty)
        => (fileResult = FileErr(EmptyOutputError) /\ fileWritten = << >>)

C11_Witness ==
    /\ fileState = "returned"
    /\ NumUnits >= 2
    /\ AllUnitsEmpty
    /\ fileResult = FileErr(EmptyOutputError)

\* ---------------------------------------------------------------------- C12
AllUnset(config) == ~IsSome(config.rate) /\ ~IsSome(config.volume) /\ ~IsSome(config.pitch)
RawCalled == sonicCall.fn = "apply_to_raw_samples"

\* C12: for every non-empty sample buffer and every configuration whose rate,
\* volume and pitch are all unset, apply_to_raw_samples succeeds and returns
\* the input samples unchanged.
C12_PassThrough ==
    (RawCalled /\ sonicIn.samples # << >> /\ AllUnset(sonicIn.config))
        => (sonicCall.ok /\ sonicCall.out = sonicIn.samples)

\* ---------------------------------------------------------------------- C13
\* C13: for an empty input apply_to_raw_samples returns success with an empty
\* buffer under every configuration, and creates no sonic stream.
C13_EmptyInputNoStream ==
    (RawCalled /\ sonicIn.samples = << >>)
        => (sonicCall.ok /\ sonicCall.out = << >> /\ sonicCall.created = 0)

C13_Witness ==
    /\ RawCalled
    /\ sonicIn.samples = << >>
    /\ IsSome(sonicIn.config.rate)
    /\ sonicCall.ok
    /\ sonicCall.created = 0

\* ---------------------------------------------------------------------- C14
SilenceCalled == sonicCall.fn = "generate_silence"

\* C14: the buffer generate_silence builds before the transformation has
\* exactly floor(time_ms * sample_rate / 1000) samples, all of them zero;
\* 500 ms at 22050 Hz gives 11025 samples.
C14_SilenceLength ==
    SilenceCalled =>
        /\ Len(sonicCall.silence_samples) = (sonicIn.time_ms * sonicIn.sample_rate) \div 1000
        /\ \A i \in DOMAIN sonicCall.silence_samples : sonicCall.silence_samples[i] = 0
        /\ (sonicIn.time_ms = 500 /\ sonicIn.sample_rate = 22050)
              => Len(sonicCall.silence_samples) = 11025

C14_Witness ==
    /\ SilenceCalled
    /\ sonicIn.time_ms = 500
    /\ sonicIn.sample_rate = 22050
    /\ Len(sonicCall.silence_samples) = 11025

\* ---------------------------------------------------------------------- C15
ApplyCalled == sonicCall.fn = "apply"
\* The untransformed silence of the configuration for the caller's audio.
RawSilence ==
    [i \in 1..((Unwrap(sonicIn.config.appended_silence_ms) * sonicIn.sample_rate) \div 1000) |-> 0]

\* C15: when silence is configured, apply appends the untransformed silence
\* to the speech and hands the concatenation to the transformer once, so no
\* sample goes through a sonic stream more than one time, and the audio's
\* metadata is unchanged.
C15_SilenceTransformedOnce ==
    (ApplyCalled /\ IsSome(sonicIn.config.appended_silence_ms)) =>
        /\ sonicCall.transformed = sonicIn.samples \o RawSilence
        /\ sonicCall.created <= 1
        /\ sonicCall.ok => sonicCall.info = SonicAudio.info

\* ---------------------------------------------------------------------- C16
\* C16: apply_to_raw_samples returns the sonic error exactly when the input
\* is non-empty, sonic reports no sample available and at least one of rate,
\* volume and pitch is set; with all three unset it never returns it.
C16_TransformErrorExactly ==
    RawCalled =>
        /\ (~sonicCall.ok /\ sonicCall.err = SonicError)
              <=> /\ sonicIn.samples # << >>
                  /\ sonicSamplesAvailable(sonicIn.config, sonicIn.samples) = 0
                  /\ ~AllUnset(sonicIn.config)
        /\ AllUnset(sonicIn.config) => sonicCall.ok

C16_Witness ==
    /\ RawCalled
    /\ Len(sonicIn.samples) = 1
    /\ IsSome(sonicIn.config.rate)
    /\ ~sonicCall.ok
    /\ sonicCall.err = SonicError

\* ---------------------------------------------------------------------- C17
\* C17: every sonic stream a call created is destroyed before the call
\* returns, on every path: after any sequence of calls no stream is alive.
C17_NoStreamLeft == sonicLive = 0

\* ---------------------------------------------------------------------- C18
\* C18: with the pool running the task, every model call returning and every
\* chunk stream finite, a consumer that keeps calling next on a realtime
\* stream eventually gets the end of the stream, in every case.
C18_ConsumerSeesEnd ==
    (request = "streamed" /\ rtState = "streaming") ~> (rxEnd \/ ~rxAlive)

\* The same, for the runs in which the task did not panic.
C18_EndUnlessAborted ==
    (request = "streamed" /\ rtState = "streaming") ~> (rxEnd \/ ~rxAlive \/ taskPc = "aborted")

\* ---------------------------------------------------------------------- C19
Min(a, b) == IF a <= b THEN a ELSE b

\* C19: the lazy stream synthesizes nothing at construction; after k calls of
\* next exactly the first min(k, n) units have been synthesized, once each
\* and in unit order; each call yields its unit's own result, an error too,
\* and an error does not end the sequence; the call after the n-th item
\* returns the end without a model call.
C19_LazyOnDemand ==
    /\ lazyCalls = SubSeq(Units, 1, Min(lazyNexts, NumUnits))
    /\ Len(lazyOut) = Min(lazyNexts, NumUnits)
    /\ \A j \in 1..Len(lazyOut) : lazyOut[j] = process_one_sentence(Units[j])
    /\ lazyEnd <=> lazyNexts = NumUnits + 1
    /\ lazyNexts <= NumUnits + 1

C19_Witness ==
    /\ NumUnits = MaxUnits
    /\ lazyNexts = NumUnits + 1
    /\ lazyEnd
    /\ lazyCalls = Units
    /\ ~lazyOut[1].ok
    /\ lazyOut[2].ok

\* ---------------------------------------------------------------------- C20
\* The positions whose unit fails, and the samples of the first n units one
\* after the other.
FailingUnits == { i \in 1..NumUnits : ~process_one_sentence(Units[i]).ok }
RECURSIVE SamplesUpTo(_)
SamplesUpTo(n) ==
    IF n = 0 THEN << >>
    ELSE SamplesUpTo(n - 1) \o process_one_sentence(Units[n]).audio.samples

\* C20: synthesize_to_file invokes the wave file writer only when every unit
\* succeeded, with the units' samples concatenated in unit order; when a unit
\* fails it returns the error of the lowest failing position unchanged and the
\* writer is never invoked.
C20_FirstErrorNoWrite ==
    (fileState = "returned" /\ parState = "ready") =>
        /\ fileWritten # << >> =>
              /\ FailingUnits = {}
              /\ fileWritten = << SamplesUpTo(NumUnits) >>
        /\ FailingUnits # {} =>
              /\ fileWritten = << >>
              /\ \E i \in FailingUnits :
                    /\ \A k \in FailingUnits : i <= k
                    /\ fileResult = FileErr(process_one_sentence(Units[i]).err)

C20_Witness ==
    /\ fileState = "returned"
    /\ \E i, j \in FailingUnits :
          /\ i < j
          /\ \A k \in FailingUnits : i <= k
          /\ process_one_sentence(Units[i]).err # process_one_sentence(Units[j]).err
          /\ fileResult = FileErr(process_one_sentence(Units[i]).err)
    /\ fileWritten = << >>

\* A file is written from three units in unit order.
C20_WrittenInOrder ==
    /\ fileState = "returned"
    /\ NumUnits = MaxUnits
    /\ fileWritten = << SamplesUpTo(NumUnits) >>
    /\ process_one_sentence(Units[1]).audio.samples # process_one_sentence(Units[2]).audio.samples
    /\ fileResult = FileOk

====
